---- MODULE Spec2Model ----
(***************************************************************************)
(* The encode pipeline of src/lib/serverEncoder.ts (namespace Encoder):    *)
(* encode -> downloadAndEncode -> saveTempFile/networkGet -> convertFile   *)
(* -> sendOffToBucket, as the callback chain the event loop runs.  One     *)
(* action is one callback of the event loop: it runs to completion and     *)
(* includes every synchronous call it makes.  The libraries (tmp, request, *)
(* fs, child_process, aws-sdk) are the environment: each asynchronous      *)
(* operation completes later, with an outcome chosen nondeterministically. *)
(***************************************************************************)
EXTENDS Naturals, Integers, Sequences, FiniteSets, TLC

(***************************************************************************)
(* Bounds of the model.                                                    *)
(***************************************************************************)
\* Number of encode requests that may be in flight at the same time.
NumReqs == 2

Reqs == 1..NumReqs

(***************************************************************************)
(* Optional values: null/undefined is the empty set, a value v is {v}.     *)
(***************************************************************************)
None == {}
Some(v) == {v}
The(m) == CHOOSE v \in m : TRUE

(***************************************************************************)
(* Strings that the code inspects character by character (URLs) are        *)
(* sequences of one-character strings.  Text(s) is the JavaScript string.  *)
(***************************************************************************)
RECURSIVE Text(_)
Text(s) == IF s = <<>> THEN "" ELSE Head(s) \o Text(Tail(s))

\* String(url) in a JavaScript concatenation: null prints as "null".
UrlText(url) == IF url = None THEN "null" ELSE Text(The(url))

Letters == {"a","b","c","d","e","f","g","h","i","j","k","l","m","n","o","p","q",
            "r","s","t","u","v","w","x","y","z"}
Digits == {"0","1","2","3","4","5","6","7","8","9"}
\* The regular expression class \w.
WordChars == Letters \cup Digits \cup {"_"}
\* The characters the regular expression's "." does not match.
LineTerminators == {"\n", "\r"}

\* s.substr(from) of JavaScript (0-based; a negative start counts from the end).
Substr(s, from) ==
    LET start == IF from < 0 THEN (IF Len(s) + from < 0 THEN 0 ELSE Len(s) + from)
                 ELSE from
    IN  SubSeq(s, start + 1, Len(s))

\* s.lastIndexOf(c) of JavaScript: 0-based, -1 when c does not occur.
LastIndexOf(s, c) ==
    LET hits == {i \in 1..Len(s) : s[i] = c}
    IN  IF hits = {} THEN -1 ELSE (CHOOSE i \in hits : \A j \in hits : j <= i) - 1

StartsWith(s, p) == Len(s) >= Len(p) /\ SubSeq(s, 1, Len(p)) = p

\* h matches ([\w-]+\.)+(\w+) entirely.
HostMatch(h) ==
    LET dots == {i \in 1..Len(h) : h[i] = "."}
        lastDot == CHOOSE i \in dots : \A j \in dots : j <= i
    IN  /\ dots # {}
        /\ \A i \in 1..Len(h) : h[i] \in WordChars \cup {"-", "."}
        /\ h[1] # "."
        /\ \A i \in dots : (i + 1) \notin dots
        /\ lastDot < Len(h)
        /\ \A i \in (lastDot + 1)..Len(h) : h[i] \in WordChars

Schemes == { <<"h","t","t","p",":","/","/">>,
             <<"h","t","t","p","s",":","/","/">>,
             <<"f","t","p",":","/","/">> }

\* The pattern of isWebUrl on a non-empty string.  After the host the groups
\* (:\d{1,5})?\/?(\w*\/?)*(\.\w*)? may all match the empty string and (\??.*)$
\* matches any remainder without a line terminator, so the pattern accepts exactly
\* scheme "://" host rest, with host in ([\w-]+\.)+(\w+).
WebUrlPattern(s) ==
    \E sch \in Schemes :
        /\ StartsWith(s, sch)
        /\ \E k \in (Len(sch) + 1)..Len(s) :
              /\ HostMatch(SubSeq(s, Len(sch) + 1, k))
              /\ \A i \in (k + 1)..Len(s) : s[i] \notin LineTerminators

isWebUrl(url) ==
    IF url = None \/ url = Some(<<>>) THEN FALSE ELSE WebUrlPattern(The(url))

getExtension(url, fallback) ==
    LET extension == IF url # None /\ url # Some(<<>>)
                     THEN Substr(The(url), LastIndexOf(The(url), "."))
                     ELSE <<>>
    IN  IF Len(extension) = 0 THEN fallback ELSE extension

\* Variant of urlForKey: the virtual-hosted form of the address.
urlForKeyVirtualHost(bucket, key) == "https://" \o bucket \o ".s3.amazonaws.com/" \o key

urlForKey(bucket, key) == "https://s3.amazonaws.com/" \o bucket \o "/" \o key


(***************************************************************************)
(* Values.                                                                 *)
(***************************************************************************)
\* Error(message) of JavaScript; code is "" unless a library sets one.
Error(message) == [message |-> message, code |-> ""]

\* The errors the environment may deliver.
TmpErrors == { Error("Could not get a unique tmp filename, max tries reached") }
NetErrors == { [message |-> "socket hang up", code |-> "ECONNRESET"] }
ExecErrors == { [message |-> "Command failed: ffmpeg", code |-> "1"],
                [message |-> "spawn ffmpeg ENOENT", code |-> "ENOENT"] }
StoreErrors == { [message |-> "The AWS Access Key Id you provided does not exist in our records.",
                  code |-> "InvalidAccessKeyId"],
                 [message |-> "The specified bucket does not exist",
                  code |-> "NoSuchBucket"] }
\* HTTP status codes of the final response.
Statuses == {200, 404}

AudioUrl  == <<"h","t","t","p","s",":","/","/","d","2",".","n","e","t","/","a",".","m","4","a">>
OtherUrl  == <<"h","t","t","p",":","/","/","t",".","l","i","b","s","y","n",".","c","o","m","/","i">>
LocalFile == <<"/","t","e","s","t","/","i","m","g",".","p","n","g">>
\* A source without a "." anywhere.
NoDotUrl  == <<"/","t","m","p","/","a","u","d","i","o">>

MkParams(u, b, k, id, secret) ==
    [sourceUrl |-> u, targetBucket |-> b, targetKey |-> k,
     accessKeyId |-> id, accessSecret |-> secret]

\* The requests a caller may make (Params, with the optional fields absent as None).
ParamChoices ==
    { MkParams(Some(AudioUrl), "bespoken/encoder/test", "testKey.mp3", Some("ID1"), Some("SECRET1")),
      MkParams(Some(OtherUrl), "bespoken/encoder/test", "testKey.mp3", Some("ID2"), Some("SECRET2")),
      MkParams(Some(AudioUrl), "bespoken/encoder/test_public", "testKey.mp3", None, None),
      MkParams(Some(LocalFile), "bespoken/encoder/test", "testKey.mp3", Some("ID1"), Some("SECRET1")),
      MkParams(Some(NoDotUrl), "bespoken/encoder/test", "testKey.mp3", Some("ID1"), Some("SECRET1")),
      MkParams(None, "bespoken/encoder/test", "testKey.mp3", Some("ID1"), Some("SECRET1")),
      MkParams(Some(<<>>), "bespoken/encoder/test", "testKey.mp3", None, None) }

NoParams == MkParams(None, "", "", None, None)

\* Credentials as the store client holds them.
Credentials(id, secret) == [accessKeyId |-> id, secretAccessKey |-> secret]
\* What the SDK resolves when nothing was configured (environment, ~/.aws).
AmbientCredentials == Credentials("AMBIENT", "AMBIENT")

\* tmp gives every temp file a name of its own; the postfix is the option passed.
Mp3Postfix == <<".","m","p","3">>
TmpPostfix == <<".","t","m","p">>
TempPath(r, n, pf) == [owner |-> r, n |-> n, postfix |-> pf]

(***************************************************************************)
(* State.                                                                  *)
(***************************************************************************)
VARIABLES
    pc,            \* per request: the asynchronous operation it is waiting for
    params,        \* per request: the Params given to encode
    inputPath,     \* per request: the temp file of saveTempFile (None before tmp.file)
    outputPath,    \* per request: the name tmp.tmpName gave convertFile
    disk,          \* the temp files that exist
    streamOpen,    \* per request: the fs.WriteStream on inputPath is open
    httpErrored,   \* per request: the request's "error" event was delivered
    unlinks,       \* per request: the paths given to fs.unlink, in order
    unlinkPending, \* fs.unlink calls that have not completed
    httpCount,     \* per request: request.get calls
    execCount,     \* per request: cprocess.execFile calls
    execError,     \* per request: the error execFile reported (None: none, or not run)
    putCount,      \* per request: s3.putObject calls
    awsConfig,     \* aws.config's credentials, shared by the process
    configUpdates, \* per request: aws.config.update calls
    putRequest,    \* per request: the credentials and body of its putObject
    putResponse,   \* per request: the error the store answered (None: success)
    fetchCalls,    \* per request: invocations of saveTempFile's callback
    cvCalls,       \* per request: invocations of convertFile's callback
    daeCalls,      \* per request: invocations of downloadAndEncode's callback
    calls          \* per request: invocations of encode's callback

vars == <<pc, params, inputPath, outputPath, disk, streamOpen, httpErrored, unlinks,
          unlinkPending, httpCount, execCount, execError, putCount, awsConfig, configUpdates,
          putRequest, putResponse, fetchCalls, cvCalls, daeCalls, calls>>

Init ==
    /\ pc = [r \in Reqs |-> "idle"]
    /\ params = [r \in Reqs |-> NoParams]
    /\ inputPath = [r \in Reqs |-> None]
    /\ outputPath = [r \in Reqs |-> None]
    /\ disk = {}
    /\ streamOpen = [r \in Reqs |-> FALSE]
    /\ httpErrored = [r \in Reqs |-> FALSE]
    /\ unlinks = [r \in Reqs |-> <<>>]
    /\ unlinkPending = {}
    /\ httpCount = [r \in Reqs |-> 0]
    /\ execCount = [r \in Reqs |-> 0]
    /\ execError = [r \in Reqs |-> None]
    /\ putCount = [r \in Reqs |-> 0]
    /\ awsConfig = AmbientCredentials
    /\ configUpdates = [r \in Reqs |-> 0]
    /\ putRequest = [r \in Reqs |-> None]
    /\ putResponse = [r \in Reqs |-> None]
    /\ fetchCalls = [r \in Reqs |-> <<>>]
    /\ cvCalls = [r \in Reqs |-> <<>>]
    /\ daeCalls = [r \in Reqs |-> <<>>]
    /\ calls = [r \in Reqs |-> <<>>]


(***************************************************************************)
(* The decisions of the code, one operator each.                           *)
(***************************************************************************)
Paths(r) == inputPath[r] \cup outputPath[r]
OwnFiles(r, dsk) == {p \in dsk : p.owner = r}
Range(s) == {s[i] : i \in 1..Len(s)}

\* Variant of NetworkGetIssuesRequest: networkGet without the isWebUrl check.
NetworkGetUnchecked(fileUrl) == TRUE

\* networkGet: the branch taken for fileUrl.
NetworkGetIssuesRequest(fileUrl) == isWebUrl(fileUrl)

\* networkGet's error for an unsupported URL.
UnsupportedUri(fileUrl) == Error("The url " \o UrlText(fileUrl) \o " is not a supported URI.")

\* saveTempFile.positive: the error for a response that is not 200.
NotRetrieved(fileUrl) == Error("Could not retrieve file from " \o UrlText(fileUrl))

\* saveTempFile.positive: whether the response is piped to the file.
ResponseAccepted(statusCode) == statusCode = 200

\* downloadAndEncode: the error passed on when saveTempFile failed.
DownloadError(sourceUrl, error) ==
    Error("Unable to download and save file at path " \o UrlText(sourceUrl)
          \o ". Error: " \o error.message)

\* Variant of SourceUnlinks: downloadAndEncode without its fs.unlink.
SourceUnlinksNone(fileUri) == <<>>

\* downloadAndEncode: the paths it unlinks once convertFile has called back.
SourceUnlinks(fileUri) == <<fileUri>>

\* Variant of ConvertResult: outputPath is not reset when execFile failed.
ConvertResultKeepsPath(error, outPath) ==
    [err |-> IF error # None THEN Some(Error("Unable to encode the file to mp3.")) ELSE None,
     outputFile |-> Some(outPath)]

\* Variant of ConvertResult: execFile's own error is passed on.
ConvertResultPassesError(error, outPath) ==
    [err |-> error, outputFile |-> IF error # None THEN None ELSE Some(outPath)]

\* convertFile: what the execFile callback passes on, given execFile's error
\* (None: exit code 0) and the allocated output path.
ConvertResult(error, outPath) ==
    [err |-> IF error # None THEN Some(Error("Unable to encode the file to mp3.")) ELSE None,
     outputFile |-> IF error # None THEN None ELSE Some(outPath)]

\* Variant of ConvertUnlinks: convertFile without its fs.unlink.
ConvertUnlinksNone(error, outPath) == <<>>

\* convertFile: the paths it unlinks, given execFile's error.
ConvertUnlinks(error, outPath) == IF error # None THEN <<outPath>> ELSE <<>>

\* Variant of EncodePublishes: encode without the check of err.
EncodePublishesAlways(err) == TRUE

\* encode: whether it goes on to publish, given downloadAndEncode's error.
EncodePublishes(err) == ~(err # None)

\* Variant of ConfigUpdate: the configured credentials are overwritten with
\* whatever the request holds, absent values included.
ConfigUpdateOverwrites(cfg, id, secret) ==
    Credentials(IF id = None THEN "undefined" ELSE The(id),
                IF secret = None THEN "undefined" ELSE The(secret))

\* encode: aws.config.update({accessKeyId, secretAccessKey}).  The SDK replaces
\* the configured credentials when both values are given and leaves them otherwise.
ConfigUpdate(cfg, id, secret) ==
    IF id # None /\ secret # None THEN Credentials(The(id), The(secret)) ELSE cfg

\* Variant of ClientCredentials: a client constructed with the request's own
\* credentials (the default ones when it supplies none).
ClientCredentialsOwn(cfg, p) == ConfigUpdate(AmbientCredentials, p.accessKeyId, p.accessSecret)

\* sendOffToBucket: new aws.S3() takes the credentials of aws.config as it is
\* when the client is constructed.
ClientCredentials(cfg, p) == cfg

\* sendOffToBucket: the put-object request, given readFile's data (None: the read failed).
PutObjectRequest(bucket, itemKey, data, credentials) ==
    [Bucket |-> bucket, Key |-> itemKey, Body |-> data, ACL |-> "public-read",
     credentials |-> credentials]

\* Variant of PublishUrl: the url is built before the error is looked at.
PublishUrlAlways(err, bucket, itemKey) == Some(urlForKey(bucket, itemKey))

\* Variant of PublishError: the store's error wrapped in a new Error.
PublishErrorWrapped(err) ==
    IF err = None THEN None ELSE Some(Error("Unable to upload the file. Error: " \o The(err).message))

\* sendOffToBucket: what the putObject callback passes on, given the store's error.
PublishError(err) == err
PublishUrl(err, bucket, itemKey) ==
    IF err # None THEN None ELSE Some(urlForKey(bucket, itemKey))

\* Variant of Mp3Unlinks: encode calls back without having called fs.unlink.
Mp3UnlinksNone(mp3file) == <<>>

\* encode: the paths it unlinks once sendOffToBucket has called back.
Mp3Unlinks(mp3file) == <<mp3file>>

\* One invocation of encode's callback, with the request's temp files that exist
\* and the paths it has given to fs.unlink at that moment.
Call(r, err, url, stage, dsk, uls) ==
    [err |-> err, url |-> url, stage |-> stage,
     onDisk |-> OwnFiles(r, dsk), unlinked |-> Range(uls)]

\* The data fs.readFile delivers for a path: the contents of that file.
FileData(path) == [bytesOf |-> path]

\* saveTempFile.negative: where the request stands after the "error" event, given
\* where it stood: nothing is started again; a body that is being piped is still
\* being piped.
AfterNetError(at) == IF at = "streaming" THEN "streaming" ELSE "done"


(***************************************************************************)
(* The callback chain.  Each operator below is the part of an action that   *)
(* runs synchronously inside the callback that starts it.                  *)
(***************************************************************************)
\* encode's callback on downloadAndEncode (lines 40-57): report the error, or
\* update aws.config and start sendOffToBucket, whose first step is fs.readFile.
\* `rest` is where the request stands if encode reports the error.
EncodeOnResult(r, err, stage, rest, dsk, uls) ==
    IF EncodePublishes(err)
    THEN /\ awsConfig' = ConfigUpdate(awsConfig, params[r].accessKeyId,
                                       params[r].accessSecret)
         /\ configUpdates' = [configUpdates EXCEPT ![r] = @ + 1]
         /\ pc' = [pc EXCEPT ![r] = "readFile"]
         /\ calls' = calls
    ELSE /\ calls' = [calls EXCEPT ![r] = Append(@, Call(r, err, None, stage, dsk, uls))]
         /\ pc' = [pc EXCEPT ![r] = rest]
         /\ UNCHANGED <<awsConfig, configUpdates>>

\* saveTempFile's callback(error, null) and downloadAndEncode's branch for it
\* (lines 91-92), up to encode's callback.
FetchFailed(r, error, rest, dsk) ==
    LET wrapped == DownloadError(params[r].sourceUrl, error)
    IN  /\ fetchCalls' = [fetchCalls EXCEPT ![r] = Append(@, [err |-> Some(error), fileUri |-> None])]
        /\ daeCalls' = [daeCalls EXCEPT ![r] = Append(@, [err |-> Some(wrapped), outputPath |-> None])]
        /\ EncodeOnResult(r, Some(wrapped), "download", rest, dsk, unlinks[r])

(***************************************************************************)
(* Actions.                                                                *)
(***************************************************************************)
\* encode(params, callback): downloadAndEncode -> saveTempFile, which computes the
\* postfix and calls tmp.file.  Requests are numbered in the order they arrive.
Encode(r) ==
    /\ pc[r] = "idle"
    /\ \A q \in Reqs : q < r => pc[q] # "idle"
    /\ \E p \in ParamChoices : params' = [params EXCEPT ![r] = p]
    /\ pc' = [pc EXCEPT ![r] = "tmpFile"]
    /\ UNCHANGED <<inputPath, outputPath, disk, streamOpen, httpErrored, unlinks,
                   unlinkPending, httpCount, execCount, execError, putCount, awsConfig, configUpdates, putRequest,
                   putResponse, fetchCalls, cvCalls, daeCalls, calls>>

\* The callback of tmp.file (lines 159-188).  Its err is not looked at: when tmp.file
\* failed, inputPath is undefined and fs.createWriteStream throws out of the callback.
\* Otherwise the temp file exists (keep: true), the write stream is opened, and
\* networkGet either issues the request or calls `negative` at once.
TmpFileDone(r) ==
    /\ pc[r] = "tmpFile"
    /\ \E ok \in BOOLEAN :
        IF ~ok
        THEN /\ pc' = [pc EXCEPT ![r] = "crashed"]
             /\ UNCHANGED <<inputPath, disk, streamOpen, httpCount, awsConfig, configUpdates,
                            fetchCalls, daeCalls, calls>>
        ELSE LET url == params[r].sourceUrl
                 path == TempPath(r, 1, getExtension(url, TmpPostfix))
             IN  /\ inputPath' = [inputPath EXCEPT ![r] = Some(path)]
                 /\ disk' = disk \cup {path}
                 /\ streamOpen' = [streamOpen EXCEPT ![r] = TRUE]
                 /\ IF NetworkGetIssuesRequest(url)
                    THEN /\ httpCount' = [httpCount EXCEPT ![r] = @ + 1]
                         /\ pc' = [pc EXCEPT ![r] = "httpWait"]
                         /\ UNCHANGED <<awsConfig, configUpdates, fetchCalls, daeCalls, calls>>
                    ELSE /\ FetchFailed(r, UnsupportedUri(url), "done", disk')
                         /\ UNCHANGED httpCount
    /\ UNCHANGED <<params, outputPath, httpErrored, unlinks, unlinkPending, execCount, execError,
                   putCount, putRequest, putResponse, cvCalls>>

\* The request's "response" event: saveTempFile.positive (lines 162-178).
HttpResponse(r) ==
    /\ pc[r] = "httpWait"
    /\ \E statusCode \in Statuses :
        IF ResponseAccepted(statusCode)
        THEN /\ pc' = [pc EXCEPT ![r] = "streaming"]
             /\ UNCHANGED <<awsConfig, configUpdates, fetchCalls, daeCalls, calls>>
        ELSE FetchFailed(r, NotRetrieved(params[r].sourceUrl), "rejected", disk)
    /\ UNCHANGED <<params, inputPath, outputPath, disk, streamOpen, httpErrored, unlinks,
                   unlinkPending, httpCount, execCount, execError, putCount, putRequest, putResponse,
                   cvCalls>>

\* The request's "error" event: saveTempFile.negative (lines 180-185).  The HTTP
\* client emits it when the connection fails, before a response or while the
\* body of a response is still arriving; a body that is being piped may still end
\* afterwards (the client ends the response when the socket closes).
HttpError(r) ==
    /\ pc[r] \in {"httpWait", "streaming", "rejected"}
    /\ ~httpErrored[r]
    /\ httpErrored' = [httpErrored EXCEPT ![r] = TRUE]
    /\ \E error \in NetErrors :
        FetchFailed(r, error, AfterNetError(pc[r]), disk)
    /\ UNCHANGED <<params, inputPath, outputPath, disk, streamOpen, unlinks,
                   unlinkPending, httpCount, execCount, execError, putCount, putRequest, putResponse,
                   cvCalls>>

\* The write stream's "error" event while the body is piped to it.  saveTempFile
\* registers no listener for it (lines 160-170): the stream destroys itself,
\* closing the file, and the event is thrown as an uncaught exception, so that no
\* callback is invoked.
WriteError(r) ==
    /\ pc[r] = "streaming"
    /\ streamOpen' = [streamOpen EXCEPT ![r] = FALSE]
    /\ pc' = [pc EXCEPT ![r] = "crashed"]
    /\ UNCHANGED <<params, inputPath, outputPath, disk, httpErrored, unlinks,
                   unlinkPending, httpCount, execCount, execError, putCount, awsConfig,
                   configUpdates, putRequest, putResponse, fetchCalls, cvCalls, daeCalls,
                   calls>>

\* The write stream's "finish" event (lines 167-170): close the file, call back
\* with the path; downloadAndEncode calls convertFile, which calls tmp.tmpName.
StreamFinish(r) ==
    /\ pc[r] = "streaming"
    /\ streamOpen' = [streamOpen EXCEPT ![r] = FALSE]
    /\ fetchCalls' = [fetchCalls EXCEPT ![r] = Append(@, [err |-> None, fileUri |-> inputPath[r]])]
    /\ pc' = [pc EXCEPT ![r] = "tmpName"]
    /\ UNCHANGED <<params, inputPath, outputPath, disk, httpErrored, unlinks,
                   unlinkPending, httpCount, execCount, execError, putCount, awsConfig, configUpdates, putRequest,
                   putResponse, cvCalls, daeCalls, calls>>


\* convertFile's callback as downloadAndEncode receives it (lines 94-101), up to
\* encode's callback: `res` is what convertFile passes, `created` what the
\* subprocess left on disk, `own` the paths convertFile itself gave to fs.unlink.
\* fs.unlink only starts the deletion: the callback goes on at once and the
\* file is removed when the unlink completes (UnlinkDone).
ConvertDone(r, res, created, own) ==
    LET src == SourceUnlinks(The(inputPath[r]))
        uls == unlinks[r] \o own \o src
    IN  /\ disk' = disk \cup created
        /\ cvCalls' = [cvCalls EXCEPT ![r] =
              Append(@, [err |-> res.err, outputFile |-> res.outputFile,
                         onDisk |-> OwnFiles(r, disk'),
                         unlinked |-> Range(unlinks[r] \o own)])]
        /\ unlinks' = [unlinks EXCEPT ![r] = uls]
        /\ unlinkPending' = unlinkPending \cup Range(own \o src)
        /\ daeCalls' = [daeCalls EXCEPT ![r] =
              Append(@, [err |-> res.err, outputPath |-> res.outputFile])]
        /\ EncodeOnResult(r, res.err, "transcode", "done", disk', uls)

\* The callback of tmp.tmpName (lines 120-127): report the error, or start ffmpeg.
TmpNameDone(r) ==
    /\ pc[r] = "tmpName"
    /\ \E error \in {None} \cup {Some(e) : e \in TmpErrors} :
        IF error # None
        THEN /\ ConvertDone(r, [err |-> error, outputFile |-> None], {}, <<>>)
             /\ UNCHANGED <<outputPath, execCount, execError>>
        ELSE /\ outputPath' = [outputPath EXCEPT ![r] = Some(TempPath(r, 2, Mp3Postfix))]
             /\ execCount' = [execCount EXCEPT ![r] = @ + 1]
             /\ pc' = [pc EXCEPT ![r] = "ffmpeg"]
             /\ UNCHANGED <<disk, unlinks, unlinkPending, execError, awsConfig, configUpdates,
                            cvCalls, daeCalls, calls>>
    /\ UNCHANGED <<params, inputPath, streamOpen, httpErrored, httpCount, putCount,
                   putRequest, putResponse, fetchCalls>>

\* The callback of cprocess.execFile (lines 128-142).  A subprocess that exits
\* with 0 has written the output file; one that fails may have left a part of it.
FfmpegExit(r) ==
    /\ pc[r] = "ffmpeg"
    /\ \E error \in {None} \cup {Some(e) : e \in ExecErrors}, wrote \in BOOLEAN :
        LET out == The(outputPath[r])
            own == ConvertUnlinks(error, out)
        IN  /\ error = None => wrote
            /\ execError' = [execError EXCEPT ![r] = error]
            /\ ConvertDone(r, ConvertResult(error, out), IF wrote THEN {out} ELSE {}, own)
    /\ UNCHANGED <<params, inputPath, outputPath, streamOpen, httpErrored, httpCount,
                   execCount, putCount, putRequest, putResponse, fetchCalls>>

\* Variant of Mp3File: the path is kept in one variable of the module, which
\* holds the output path of the latest request that allocated one.
Mp3FileShared(r) ==
    LET qs == {q \in Reqs : outputPath[q] # None}
    IN  IF qs = {} THEN None ELSE outputPath[CHOOSE q \in qs : \A o \in qs : o <= q]

\* The mp3 file encode passed to sendOffToBucket: downloadAndEncode's last result.
Mp3File(r) == daeCalls[r][Len(daeCalls[r])].outputPath

\* The callback of fs.readFile (lines 69-72).  Its err is not looked at: the
\* client is constructed and putObject is issued with whatever data arrived.
ReadFileDone(r) ==
    /\ pc[r] = "readFile"
    /\ \E ok \in BOOLEAN :
        /\ ok => Mp3File(r) # None /\ Mp3File(r) \subseteq disk
        /\ putRequest' = [putRequest EXCEPT ![r] =
              Some(PutObjectRequest(params[r].targetBucket, params[r].targetKey,
                                    IF ok THEN Some(FileData(The(Mp3File(r)))) ELSE None,
                                    ClientCredentials(awsConfig, params[r])))]
    /\ putCount' = [putCount EXCEPT ![r] = @ + 1]
    /\ pc' = [pc EXCEPT ![r] = "putObject"]
    /\ UNCHANGED <<params, inputPath, outputPath, disk, streamOpen, httpErrored, unlinks,
                   unlinkPending, httpCount, execCount, execError, awsConfig, configUpdates, putResponse,
                   fetchCalls, cvCalls, daeCalls, calls>>

\* The callback of s3.putObject (lines 72-79) and encode's callback on
\* sendOffToBucket (lines 48-55): unlink the mp3 file, then call back.
PutObjectDone(r) ==
    /\ pc[r] = "putObject"
    /\ \E err \in {None} \cup {Some(e) : e \in StoreErrors} :
        LET own == IF Mp3File(r) = None THEN <<>> ELSE Mp3Unlinks(The(Mp3File(r)))
            uls == unlinks[r] \o own
        IN  /\ putResponse' = [putResponse EXCEPT ![r] = err]
            /\ unlinks' = [unlinks EXCEPT ![r] = uls]
            /\ unlinkPending' = unlinkPending \cup Range(own)
            /\ calls' = [calls EXCEPT ![r] =
                  Append(@, Call(r, PublishError(err),
                                 PublishUrl(err, params[r].targetBucket, params[r].targetKey),
                                 "publish", disk, uls))]
    /\ pc' = [pc EXCEPT ![r] = "done"]
    /\ UNCHANGED <<params, inputPath, outputPath, disk, streamOpen, httpErrored, httpCount,
                   execCount, execError, putCount, awsConfig, configUpdates, putRequest, fetchCalls, cvCalls, daeCalls>>

\* Variant of UnlinkDone: a failed unlink is reported to the caller.
UnlinkDoneReportsFailure(p) ==
    /\ p \in unlinkPending
    /\ unlinkPending' = unlinkPending \ {p}
    /\ \E ok \in BOOLEAN :
        IF ok
        THEN disk' = disk \ {p} /\ calls' = calls
        ELSE /\ disk' = disk
             /\ calls' = [calls EXCEPT ![p.owner] =
                   Append(@, Call(p.owner, Some(Error("EPERM: operation not permitted, unlink")),
                                  None, "publish", disk, unlinks[p.owner]))]
    /\ UNCHANGED <<pc, params, inputPath, outputPath, streamOpen, httpErrored, unlinks,
                   httpCount, execCount, execError, putCount, awsConfig, configUpdates,
                   putRequest, putResponse, fetchCalls, cvCalls, daeCalls>>

\* A pending fs.unlink completes: the file is gone, or the unlink failed and the
\* failure is logged (lines 49-53, 95-99, 130-134).
UnlinkDone(p) ==
    /\ p \in unlinkPending
    /\ unlinkPending' = unlinkPending \ {p}
    /\ \E ok \in BOOLEAN : disk' = IF ok THEN disk \ {p} ELSE disk
    /\ UNCHANGED <<pc, params, inputPath, outputPath, streamOpen, httpErrored, unlinks,
                   httpCount, execCount, execError, putCount, awsConfig, configUpdates, putRequest, putResponse,
                   fetchCalls, cvCalls, daeCalls, calls>>

Next ==
    \/ \E r \in Reqs : Encode(r)
    \/ \E r \in Reqs : TmpFileDone(r)
    \/ \E r \in Reqs : HttpResponse(r)
    \/ \E r \in Reqs : HttpError(r)
    \/ \E r \in Reqs : WriteError(r)
    \/ \E r \in Reqs : StreamFinish(r)
    \/ \E r \in Reqs : TmpNameDone(r)
    \/ \E r \in Reqs : FfmpegExit(r)
    \/ \E r \in Reqs : ReadFileDone(r)
    \/ \E r \in Reqs : PutObjectDone(r)
    \/ \E p \in unlinkPending : UnlinkDone(p)

Spec == Init /\ [][Next]_vars


(***************************************************************************)
(* Properties.                                                             *)
(***************************************************************************)
Last(s) == s[Len(s)]
Succeeded(r) == \E i \in 1..Len(calls[r]) : calls[r][i].err = None

\* C1: every invocation of encode's callback, on every path, carries exactly one
\* of error and url: the url is null iff the error is non-null.
C1_ExactlyOneOfErrorUrl ==
    \A r \in Reqs : \A i \in 1..Len(calls[r]) :
        (calls[r][i].err # None) <=> (calls[r][i].url = None)

\* C1 witness: callbacks on the download, transcode and publish failure paths and
\* on the success path have all been invoked.
C1_Witness ==
    /\ \E r \in Reqs : \E i \in 1..Len(calls[r]) :
          calls[r][i].err = None /\ calls[r][i].url # None
    /\ \E r \in Reqs : \E i \in 1..Len(calls[r]) :
          calls[r][i].err # None /\ calls[r][i].stage \in {"download", "transcode"}
    /\ \E r \in Reqs : putResponse[r] # None /\ pc[r] = "done"

\* C2: a successful encode returns exactly "https://s3.amazonaws.com/" + targetBucket
\* + "/" + targetKey, so two successful requests with the same bucket and key
\* return the same url whatever their source URLs and credentials.
C2_UrlIsBucketAndKey ==
    /\ \A r \in Reqs : \A i \in 1..Len(calls[r]) :
          calls[r][i].err = None =>
              calls[r][i].url = Some("https://s3.amazonaws.com/" \o params[r].targetBucket
                                     \o "/" \o params[r].targetKey)
    /\ \A r, q \in Reqs :
          /\ Succeeded(r) /\ Succeeded(q)
          /\ params[r].targetBucket = params[q].targetBucket
          /\ params[r].targetKey = params[q].targetKey
          => Last(calls[r]).url = Last(calls[q]).url

\* C2 witness: two requests with the same bucket and key, different source URLs and
\* different credentials, have both succeeded.
C2_Witness ==
    \E r, q \in Reqs :
        /\ Succeeded(r) /\ Succeeded(q)
        /\ params[r].targetBucket = params[q].targetBucket
        /\ params[r].targetKey = params[q].targetKey
        /\ params[r].sourceUrl # params[q].sourceUrl
        /\ params[r].accessKeyId # params[q].accessKeyId

\* C3: every invocation of convertFile's callback passes a null output path iff it
\* passes an error, for a failure of tmp.tmpName as for a failure of the subprocess.
C3_ConvertPathIffNoError ==
    \A r \in Reqs : \A i \in 1..Len(cvCalls[r]) :
        (cvCalls[r][i].outputFile = None) <=> (cvCalls[r][i].err # None)

\* C3 witness: convertFile has failed in tmp.tmpName for one request, in the
\* subprocess for another.
C3_Witness ==
    \E r, q \in Reqs :
        /\ cvCalls[r] # <<>> /\ Last(cvCalls[r]).err # None /\ execCount[r] = 0
        /\ cvCalls[q] # <<>> /\ Last(cvCalls[q]).err # None /\ execCount[q] = 1

\* The source URLs C4 and C5 are about: null, empty, or not matching the web-URL
\* pattern (a local path).
RejectedSource(r) == pc[r] # "idle" /\ ~isWebUrl(params[r].sourceUrl)

\* C4: for a source URL that is null, empty or not a web URL, encode and
\* downloadAndEncode report an error with a null result (as soon as tmp.file has
\* called back), and the request never issues an HTTP request, a subprocess or a
\* put-object call.
C4_InvalidSourceRejected ==
    \A r \in Reqs : RejectedSource(r) =>
        /\ httpCount[r] = 0 /\ execCount[r] = 0 /\ putCount[r] = 0
        /\ pc[r] \in {"tmpFile", "crashed", "done"}
        /\ pc[r] = "done" => Len(calls[r]) = 1 /\ Len(daeCalls[r]) = 1
        /\ \A i \in 1..Len(calls[r]) : calls[r][i].err # None /\ calls[r][i].url = None
        /\ \A i \in 1..Len(daeCalls[r]) :
              daeCalls[r][i].err # None /\ daeCalls[r][i].outputPath = None

\* C4 witness: a request for a local path and a request for a null URL have both
\* been answered.
C4_Witness ==
    \E r, q \in Reqs :
        /\ params[r].sourceUrl = Some(LocalFile) /\ pc[r] = "done"
        /\ params[q].sourceUrl = None /\ pc[q] = "done"

\* C5: when the source URL fails validation, the fetcher has created no temp file
\* and opened no write stream at any point of the request.
C5_NoTempFileOnInvalidSource ==
    \A r \in Reqs : RejectedSource(r) =>
        inputPath[r] = None /\ ~streamOpen[r] /\ OwnFiles(r, disk) = {}


\* The invocations of encode's callback made after the download succeeded.
AfterDownload(r) == {i \in 1..Len(calls[r]) : calls[r][i].stage # "download"}

\* C6 as claimed: when encode's callback is invoked after a successful download,
\* no temp file of the request (downloaded source, transcoded mp3) exists on disk.
C6_NoTempFileAtCallback ==
    \A r \in Reqs : \A i \in AfterDownload(r) : calls[r][i].onDisk = {}

\* C6 as amended: when encode's callback is invoked after a successful download,
\* every temp file of the request that exists on disk has been given to fs.unlink,
\* and the downloaded source is among the files given to it.
C6_TempFilesUnlinkedAtCallback ==
    \A r \in Reqs : \A i \in AfterDownload(r) :
        /\ calls[r][i].onDisk \subseteq calls[r][i].unlinked
        /\ inputPath[r] \subseteq calls[r][i].unlinked

\* C6 witness: a successful encode has called back while its downloaded source and
\* its mp3 file still exist, their deletion pending.
C6_Witness ==
    \E r \in Reqs :
        /\ Succeeded(r)
        /\ Last(calls[r]).onDisk = Paths(r)
        /\ Cardinality(Paths(r)) = 2
        /\ Paths(r) \subseteq unlinkPending

\* C7: once the download has failed (a response that is not 200, or a network
\* error), encode reports an error with a null url, never starts the subprocess
\* and never issues a put-object call.
C7_DownloadFailureStops ==
    \A r \in Reqs :
        (\E i \in 1..Len(fetchCalls[r]) : fetchCalls[r][i].err # None) =>
            /\ execCount[r] = 0 /\ putCount[r] = 0
            /\ calls[r] # <<>>
            /\ \A i \in 1..Len(calls[r]) : calls[r][i].err # None /\ calls[r][i].url = None

TranscodeFailed(r) == cvCalls[r] # <<>> /\ Last(cvCalls[r]).err # None

\* C8: when convertFile reports an error, encode passes that error on with a null
\* url, issues no put-object call and makes no aws.config.update.
C8_TranscodeErrorStops ==
    \A r \in Reqs : TranscodeFailed(r) =>
        /\ putCount[r] = 0 /\ putRequest[r] = None /\ configUpdates[r] = 0
        /\ calls[r] # <<>>
        /\ Last(calls[r]).err = Last(cvCalls[r]).err
        /\ Last(calls[r]).url = None

\* C8 witness: a subprocess failure has been reported by encode while the shared
\* configuration holds what another request wrote.
C8_Witness ==
    \E r \in Reqs :
        /\ TranscodeFailed(r) /\ execCount[r] = 1
        /\ Last(calls[r]).err = Some(Error("Unable to encode the file to mp3."))
        /\ awsConfig # AmbientCredentials

\* C9: when the store rejects the put-object call, encode's callback receives
\* exactly the store's error, with a null url.
C9_StoreErrorUnmodified ==
    \A r \in Reqs : putResponse[r] # None =>
        /\ calls[r] # <<>>
        /\ Last(calls[r]).stage = "publish"
        /\ Last(calls[r]).err = putResponse[r]
        /\ Last(calls[r]).url = None

\* C9 witness: the transcode succeeded, the store rejected the put, encode called back.
C9_Witness ==
    \E r \in Reqs :
        /\ putResponse[r] \in {Some(e) : e \in StoreErrors}
        /\ Last(cvCalls[r]).err = None
        /\ pc[r] = "done"

\* C10: encode writes the credentials a request supplies into the configuration
\* all requests share, and every put-object call is issued with the credentials
\* that configuration holds when the client is constructed, whichever request
\* issues it.
C10_PutUsesSharedConfig ==
    [][\A r \in Reqs :
          /\ (configUpdates'[r] # configUpdates[r] /\ params[r].accessKeyId # None) =>
                awsConfig' = Credentials(The(params[r].accessKeyId), The(params[r].accessSecret))
          /\ putCount'[r] # putCount[r] =>
                The(putRequest'[r]).credentials = awsConfig]_vars

\* C10 witness: of two requests with different credentials, one has issued its
\* put-object call with the credentials of the other.
C10_Witness ==
    \E r, q \in Reqs :
        /\ r # q
        /\ params[r].accessKeyId # None /\ params[q].accessKeyId # None
        /\ params[r].accessKeyId # params[q].accessKeyId
        /\ putRequest[r] # None
        /\ The(putRequest[r]).credentials =
              Credentials(The(params[q].accessKeyId), The(params[q].accessSecret))


SuppliesCredentials(r) == params[r].accessKeyId # None /\ params[r].accessSecret # None

Occurrences(seq, x) == Cardinality({i \in 1..Len(seq) : seq[i] = x})

\* C12: once an encode call is over (its callback invoked, nothing of it
\* pending), every temp file the fetcher or the transcoder allocated for it has
\* been passed to fs.unlink exactly once, the download having failed or not.
C12_TempFilesUnlinkedOnce ==
    \A r \in Reqs :
        pc[r] = "done" =>
            \A p \in Paths(r) : Occurrences(unlinks[r], p) = 1

NewlyUnlinked(r, p) == p \in Range(unlinks'[r]) /\ p \notin Range(unlinks[r])

\* C13: within one encode call the steps follow one another in this order: the
\* download stream has finished before the subprocess is started; the
\* subprocess has exited when the deletion of the downloaded source is issued;
\* that deletion has been issued before the put-object call is issued; the
\* put-object call has completed when the deletion of the transcoded file is
\* issued; that deletion has been issued when the callback is invoked with the
\* outcome of the upload.
C13_StagesInOrder ==
    [][\A r \in Reqs :
          /\ execCount'[r] # execCount[r] =>
                /\ fetchCalls[r] # <<>> /\ Last(fetchCalls[r]).err = None
                /\ ~streamOpen[r]
          /\ (\E p \in inputPath[r] : NewlyUnlinked(r, p)) =>
                /\ pc[r] \in {"tmpName", "ffmpeg"} /\ pc'[r] # "ffmpeg"
                /\ execCount[r] > 0 => pc[r] = "ffmpeg" /\ Len(cvCalls'[r]) > Len(cvCalls[r])
                /\ putCount[r] = 0
          /\ putCount'[r] # putCount[r] =>
                /\ inputPath[r] \subseteq Range(unlinks[r])
                /\ outputPath[r] \cap Range(unlinks[r]) = {}
                /\ pc[r] # "ffmpeg" /\ putResponse[r] = None /\ calls'[r] = calls[r]
          /\ (\E p \in outputPath[r] : NewlyUnlinked(r, p) /\ putCount[r] > 0) =>
                pc[r] = "putObject" /\ pc'[r] = "done"
          /\ (Len(calls'[r]) > Len(calls[r]) /\ Last(calls'[r]).stage = "publish") =>
                /\ pc[r] = "putObject"
                /\ Mp3File(r) \subseteq Last(calls'[r]).unlinked]_vars

\* C13 witness: a request has gone through all the stages: one download, one
\* subprocess, one put-object call, both deletions issued, the callback invoked
\* with the url.
C13_Witness ==
    \E r \in Reqs :
        /\ httpCount[r] = 1 /\ execCount[r] = 1 /\ putCount[r] = 1
        /\ unlinks[r] = <<The(inputPath[r]), The(outputPath[r])>>
        /\ calls[r] # <<>> /\ Last(calls[r]).stage = "publish" /\ Last(calls[r]).err = None

ExecFailed(r) == execError[r] # None

\* C14 (as stated): when the subprocess has failed, no file exists at the output
\* path at the moment convertFile invokes its callback with the error.
C14_OutputGoneAtCallback ==
    \A r \in Reqs :
        ExecFailed(r) =>
            /\ Last(cvCalls[r]).err # None
            /\ outputPath[r] \cap Last(cvCalls[r]).onDisk = {}

\* C14 (amended): when the subprocess has failed, the output path has been given
\* to fs.unlink, and nothing else has, at the moment convertFile invokes its
\* callback with the error.
C14_OutputUnlinkIssuedAtCallback ==
    \A r \in Reqs :
        ExecFailed(r) =>
            /\ Last(cvCalls[r]).err # None
            /\ Last(cvCalls[r]).unlinked = outputPath[r]

\* C14 witness: the subprocess failed after writing a part of the output file,
\* and the file still exists although convertFile has called back.
C14_Witness ==
    \E r \in Reqs :
        /\ ExecFailed(r)
        /\ outputPath[r] \subseteq Last(cvCalls[r]).onDisk
        /\ outputPath[r] \subseteq disk

\* C15: the completion of an fs.unlink, with the file removed or not, invokes no
\* callback and changes nothing that a callback is computed from; and the one
\* file a later stage reads, the mp3 file, has not been given to fs.unlink while
\* its read is outstanding.  The error and url the caller receives are thus the
\* same whether each unlink succeeds or fails.
C15_UnlinkOutcomeNotVisible ==
    [][/\ (unlinkPending \ unlinkPending' # {}) =>
            /\ calls' = calls /\ daeCalls' = daeCalls /\ cvCalls' = cvCalls
            /\ fetchCalls' = fetchCalls
            /\ pc' = pc /\ putRequest' = putRequest /\ putResponse' = putResponse
       /\ \A r \in Reqs :
            pc'[r] = "readFile" =>
                Mp3File(r)' # None /\ Mp3File(r)' \cap Range(unlinks'[r]) = {}]_vars

\* C15 witness: an unlink of a request's temp file has failed (the path was given
\* to fs.unlink, the unlink is no longer pending and the file still exists) and
\* the request's callback has received the url.
C15_Witness ==
    \E r \in Reqs :
        /\ \E p \in Range(unlinks[r]) : p \notin unlinkPending /\ p \in disk
        /\ calls[r] # <<>> /\ Last(calls[r]).err = None /\ Last(calls[r]).url # None

\* An I/O error has just struck while the response body was being piped to the
\* temp file: the connection failed after the 200 response, or the write failed.
StreamingFailed(r) ==
    \/ pc[r] = "streaming" /\ httpErrored[r]
    \/ pc[r] = "crashed" /\ inputPath[r] # None

\* C16: after an I/O error while the response body is streamed, saveTempFile's
\* callback has been invoked with an error and a null path, and the write stream
\* on the temp file is closed.
C16_StreamErrorReportedAndClosed ==
    \A r \in Reqs :
        StreamingFailed(r) =>
            /\ fetchCalls[r] # <<>>
            /\ Last(fetchCalls[r]).err # None /\ Last(fetchCalls[r]).fileUri = None
            /\ ~streamOpen[r]

GenericEncodeError == Error("Unable to encode the file to mp3.")

\* C17: whatever error the subprocess failed with, convertFile passes on the one
\* generic error "Unable to encode the file to mp3.", and so does encode to the
\* caller; the subprocess's own message is no part of it.
C17_GenericTranscodeError ==
    \A r \in Reqs :
        ExecFailed(r) =>
            /\ Last(cvCalls[r]).err = Some(GenericEncodeError)
            /\ Last(daeCalls[r]).err = Some(GenericEncodeError)
            /\ Last(calls[r]).stage = "transcode" /\ Last(calls[r]).err = Some(GenericEncodeError)
            /\ The(execError[r]).message # The(Last(calls[r]).err).message

\* C17 witness: two requests whose subprocesses failed with different errors have
\* both reported the generic error.
C17_Witness ==
    \E r, q \in Reqs :
        /\ ExecFailed(r) /\ ExecFailed(q) /\ execError[r] # execError[q]
        /\ Last(calls[r]).err = Some(GenericEncodeError)
        /\ Last(calls[q]).err = Last(calls[r]).err

\* C18: no stage is retried and any failure is terminal: an encode call issues at
\* most one HTTP GET, one subprocess and one put-object call; after a failed
\* download it starts no subprocess and no upload, after a failed transcode no
\* upload, and after a failed read of the mp3 file no put-object call.
C18_NoRetryFailureTerminal ==
    \A r \in Reqs :
        /\ httpCount[r] <= 1 /\ execCount[r] <= 1 /\ putCount[r] <= 1
        /\ (\E i \in 1..Len(calls[r]) : calls[r][i].stage = "download") =>
              execCount[r] = 0 /\ putCount[r] = 0
        /\ (cvCalls[r] # <<>> /\ Last(cvCalls[r]).err # None) => putCount[r] = 0
        /\ putRequest[r] # None => The(putRequest[r]).Body # None

\* The request has been started and none of its external operations is
\* outstanding: nothing can report to it any more.
NothingOutstanding(r) == pc[r] \in {"done", "crashed"}

\* C19: an encode call all of whose external operations have reported success or
\* failure has invoked its callback.
C19_CallbackInvoked ==
    \A r \in Reqs : NothingOutstanding(r) => calls[r] # <<>>

\* C20: concurrent requests never share temp files: every path a request gives
\* to fs.unlink, and the file whose contents it uploads, was allocated for that
\* request, and no path is allocated for two requests.
C20_TempFilesNotShared ==
    \A r \in Reqs :
        /\ \A p \in Range(unlinks[r]) : p.owner = r /\ p \in Paths(r)
        /\ \A q \in Reqs \ {r} : Paths(r) \cap Paths(q) = {}
        /\ \A rq \in putRequest[r] : \A d \in rq.Body : d.bytesOf \in outputPath[r]

\* C20 witness: two requests are uploading at the same time, each the contents
\* of its own mp3 file, and both files exist.
C20_Witness ==
    \E r, q \in Reqs :
        /\ r # q
        /\ \A x \in {r, q} :
              /\ pc[x] = "putObject"
              /\ The(putRequest[x]).Body = Some(FileData(The(outputPath[x])))
              /\ outputPath[x] \subseteq disk

\* The suffix the temp file of a source is to have: the part of the URL from its
\* last "." onward, ".tmp" when the URL is null, empty or without a ".".
SuffixFromLastDot(url) ==
    IF url = None \/ url = Some(<<>>) THEN <<".","t","m","p">>
    ELSE LET s == The(url)
             dots == {i \in 1..Len(s) : s[i] = "."}
         IN  IF dots = {} THEN <<".","t","m","p">>
             ELSE SubSeq(s, CHOOSE i \in dots : \A j \in dots : j <= i, Len(s))

\* C21: the suffix of the downloaded temp file is the part of the source URL from
\* its last "." onward, and ".tmp" whenever the URL is null, empty or contains no ".".
C21_SuffixFromLastDotOrFallback ==
    \A r \in Reqs : \A p \in inputPath[r] :
        p.postfix = SuffixFromLastDot(params[r].sourceUrl)

\* C22: the caller's callback is invoked at most once per encode call, and so is
\* downloadAndEncode's, whatever events the HTTP client delivers.
C22_CallbackAtMostOnce ==
    \A r \in Reqs : Len(calls[r]) <= 1 /\ Len(daeCalls[r]) <= 1

\* C23: sendOffToBucket issues put-object only with the contents of the file it
\* read: when reading the transcoded file fails, no put-object call with an
\* absent body is issued and the callback receives an error and a null url.
C23_PutOnlyAfterSuccessfulRead ==
    \A r \in Reqs : \A rq \in putRequest[r] : rq.Body # None

====
